---- MODULE Spec2Model ----
(***************************************************************************)
(* Model of the IPTV plan purchase utility: the credential generator       *)
(* (generateUsernameFromEmail, generatePassword) and the purchase          *)
(* orchestrator (purchasePlan).                                             *)
(*                                                                         *)
(* A JavaScript string is a sequence of one-character strings; the value   *)
(* undefined is the one-element sequence Undefined, whose element is not   *)
(* a character.  Error messages are never taken apart and are kept as      *)
(* TLA+ strings.  A JavaScript object is a record whose DOMAIN is the set  *)
(* of the properties that are present.                                     *)
(***************************************************************************)
EXTENDS Integers, Sequences, FiniteSets, TLC

VARIABLES
    planId, email, orderType, macAddress, isFreeTrial, \* arguments of purchasePlan
    env,            \* process.env
    rng,            \* hidden state of Math.random
    pc,             \* the await purchasePlan is suspended at
    browser,        \* the local variable browser: TRUE once launch resolved
    browserOpen,    \* the browser process is running
    closeCalls,     \* number of browser.close() invocations
    url,            \* page.url()
    form,           \* the fields of the page the session is on
    username, password, \* the locals of purchasePlan
    caught,         \* the value thrown into the catch block
    failedAt,       \* the step whose failure entered the catch block
    faults,         \* number of awaited operations that rejected
    result,         \* the PurchaseResult the invocation resolved with
    steps,          \* how many times each awaited step was executed
    landedUrl,      \* page.url() when the initial navigation resolved
    nav,            \* the provider's navigation after the final submit click
    waitFrom,       \* what nav was when page.waitForNavigation was registered
    handlerInstalled, \* page.on("dialog", ...) was executed
    readings,       \* the clock and the Math.random state the invocation read
    fnEmail, fnNow, fnOut, fnOut2,  \* direct calls of generateUsernameFromEmail
    pwLen, pwOut, pwOut2,           \* direct calls of generatePassword
    vEmail, vOut,                   \* a direct call of isValidEmail
    req,            \* the HTTP request: origin, x-api-key and JSON body
    allowedOrigins, \* ALLOWED_ORIGINS, split
    apiKeyEnv,      \* process.env.API_KEY
    httpPc,         \* the middleware or handler the request is at
    response,       \* the HTTP response sent
    dialogs,        \* dialog events raised by the page and not yet handled
    accepted,       \* dialogs the handler accepted
    unhandled,      \* rejections of the handler's promise, which nothing awaits
    other,          \* the suspended one of two concurrent invocations
    self            \* which of the two invocations is running

vars == <<planId, email, orderType, macAddress, isFreeTrial, env, rng, pc,
          browser, browserOpen, closeCalls, url, form, username, password,
          caught, failedAt, faults, result, steps, landedUrl, nav, waitFrom,
          handlerInstalled, readings, fnEmail, fnNow, fnOut, fnOut2,
          pwLen, pwOut, pwOut2, vEmail, vOut, req, allowedOrigins, apiKeyEnv,
          httpPc, response, dialogs, accepted, unhandled, other, self>>

purchaseVars == <<planId, email, orderType, macAddress, isFreeTrial, env, rng,
                  pc, browser, browserOpen, closeCalls, url, form, username,
                  password, caught, failedAt, faults, result, steps, landedUrl,
                  nav, waitFrom, handlerInstalled, readings>>

trackVars == <<landedUrl, nav, waitFrom, handlerInstalled, readings>>

fnVars == <<fnEmail, fnNow, fnOut, fnOut2>>

pwVars == <<pwLen, pwOut, pwOut2>>

validVars == <<vEmail, vOut>>

httpVars == <<req, allowedOrigins, apiKeyEnv, httpPc, response>>

dialogVars == <<dialogs, accepted, unhandled>>

pairVars == <<other, self>>

serviceVars == <<httpVars, dialogVars, pairVars>>

\* everything outside the invocation of purchasePlan
outerVars == <<fnVars, pwVars, validVars, serviceVars>>

----------------------------------------------------------------------------
(* Strings *)

Undefined == <<"undefined">>

\* !v for a string-or-undefined value
Falsy(v) == v = Undefined \/ v = <<>>

Range(s) == {s[i] : i \in 1..Len(s)}

Min(a, b) == IF a < b THEN a ELSE b

LowerCase == <<"a","b","c","d","e","f","g","h","i","j","k","l","m","n","o","p","q","r","s","t","u","v","w","x","y","z">>

UpperCase == <<"A","B","C","D","E","F","G","H","I","J","K","L","M","N","O","P","Q","R","S","T","U","V","W","X","Y","Z">>

Digits == <<"0","1","2","3","4","5","6","7","8","9">>

IndexIn(c, table) == CHOOSE i \in 1..Len(table) : table[i] = c

\* the character class [a-zA-Z0-9]
IsAlnum(c) == c \in Range(LowerCase) \cup Range(UpperCase) \cup Range(Digits)

toLowerCase(s) ==
    [i \in 1..Len(s) |->
        IF s[i] \in Range(UpperCase) THEN LowerCase[IndexIn(s[i], UpperCase)] ELSE s[i]]

toUpperCase(s) ==
    [i \in 1..Len(s) |->
        IF s[i] \in Range(LowerCase) THEN UpperCase[IndexIn(s[i], LowerCase)] ELSE s[i]]

\* s.includes(sub)
includes(s, sub) ==
    \E i \in 0..(Len(s) - Len(sub)) : SubSeq(s, i + 1, i + Len(sub)) = sub

\* s.split(c)[0]: the part of s before the first occurrence of c, all of s
\* when c does not occur
splitFirst(s, c) ==
    IF c \in Range(s)
    THEN SubSeq(s, 1, (CHOOSE i \in 1..Len(s) : s[i] = c /\ \A j \in 1..(i - 1) : s[j] # c) - 1)
    ELSE s

\* s.replace(/[^a-zA-Z0-9]/g, "")
removeNonAlnum(s) == SelectSeq(s, IsAlnum)

\* s.substring(from, to) for 0 <= from <= to
substring(s, from, to) == SubSeq(s, Min(from, Len(s)) + 1, Min(to, Len(s)))

\* s.slice(-k)
sliceLast(s, k) == IF Len(s) <= k THEN s ELSE SubSeq(s, Len(s) - k + 1, Len(s))

\* s.padStart(n, c)
padStart(s, n, c) == IF Len(s) >= n THEN s ELSE [i \in 1..(n - Len(s)) |-> c] \o s

\* n.toString() for a natural number n
RECURSIVE numToString(_)
numToString(n) ==
    IF n < 10 THEN <<Digits[n + 1]>>
    ELSE numToString(n \div 10) \o <<Digits[(n % 10) + 1]>>

----------------------------------------------------------------------------
(* Credential generator *)

Threw(msg) == [threw |-> TRUE, message |-> msg]

Returned(v) == [threw |-> FALSE, value |-> v]

\* timestampOf with the month, day, hour and minute not padded
timestampNotPadded(now) ==
    sliceLast(numToString(now.year), 2)
    \o numToString(now.month + 1)
    \o numToString(now.date)
    \o numToString(now.hours)
    \o numToString(now.minutes)

\* the timestamp YYMMDDHHMM built from new Date(); now.month is getMonth()
timestampOf(now) ==
    sliceLast(numToString(now.year), 2)
    \o padStart(numToString(now.month + 1), 2, "0")
    \o padStart(numToString(now.date), 2, "0")
    \o padStart(numToString(now.hours), 2, "0")
    \o padStart(numToString(now.minutes), 2, "0")

cleanedPrefixOf(e) == toLowerCase(removeNonAlnum(splitFirst(e, "@")))

PrefixLen == 6

prefixPartOf(cleanedPrefix) == toUpperCase(substring(cleanedPrefix, 0, PrefixLen))

generateUsernameFromEmail(e, now) ==
    IF Falsy(e) \/ ~includes(e, <<"@">>)
    THEN Threw("Invalid email address")
    ELSE IF cleanedPrefixOf(e) = <<>>
         THEN Threw("Email prefix is invalid after cleaning")
         ELSE Returned(prefixPartOf(cleanedPrefixOf(e)) \o timestampOf(now))

\* Math.random() is a pseudo-random generator: a hidden state advanced at
\* every call, started from a seed the program does not know.  The value
\* returned is state / RandomLevels, in [0, 1).
RandomLevels == 3

nextRandom(state) == (state + 1) % RandomLevels

\* Math.floor(Math.random() * charset.length)
randomIndex(state, charsetLength) == (state * charsetLength) \div RandomLevels

\* the loop of generatePassword: [password, rng] after the iterations i, i+1, ...
RECURSIVE passwordLoop(_, _, _, _)
passwordLoop(i, length, pw, state) ==
    IF i < length
    THEN passwordLoop(i + 1, length,
                      pw \o <<LowerCase[randomIndex(state, Len(LowerCase)) + 1]>>,
                      nextRandom(state))
    ELSE [password |-> pw, rng |-> state]

\* generatePassword with the loop condition i <= length
generatePasswordOneMore(length, state) == passwordLoop(0, length + 1, <<>>, state)

\* for (let i = 0; i < length; i++) password += charset.charAt(...)
generatePassword(length, state) == passwordLoop(0, length, <<>>, state)

DefaultPasswordLength == 8

\* the characters \s matches, among those of the model
Whitespace == {" ", "\t", "\n"}

\* the class [^@]: isRunChar without the \s
isRunCharNotAt(c) == c # "@"

\* the class [^\s@]
isRunChar(c) == c \notin Whitespace /\ c # "@"

\* the automaton of /^[^\s@]+@[^\s@]+\.[^\s@]+$/: 0 at the start, 1 in the
\* first run, 2 after the "@", 3 in the second run, 4 after the ".", 5 in the
\* third run; the states reached from S by the character c
emailRegexStep(S, c) ==
    {t \in 1..5 :
        \/ t = 1 /\ isRunChar(c) /\ (0 \in S \/ 1 \in S)
        \/ t = 2 /\ c = "@" /\ 1 \in S
        \/ t = 3 /\ isRunChar(c) /\ (2 \in S \/ 3 \in S)
        \/ t = 4 /\ c = "." /\ 3 \in S
        \/ t = 5 /\ isRunChar(c) /\ (4 \in S \/ 5 \in S)}

RECURSIVE emailRegexRun(_, _, _)
emailRegexRun(S, s, i) ==
    IF i > Len(s) THEN S ELSE emailRegexRun(emailRegexStep(S, s[i]), s, i + 1)

\* emailRegex.test(email)
isValidEmail(e) == 5 \in emailRegexRun({0}, e, 1)

----------------------------------------------------------------------------
(* Inputs of the model *)

EmailLong == <<"J","o",".","D","o","e","_","1","2","x","@","x",".","i","o">>

EmailShort == <<"a","@","b">>

EmailNoAt == <<"a","b">>

EmailNoAlnum == <<".","@","b">>

Emails == {EmailLong, EmailShort, EmailNoAt, EmailNoAlnum, <<>>}

\* app.ts forwards the orderType of the request body as it is
OrderTypes == {"STANDARD", "MAG_DEVICE", "OTHER"}

Mac == <<"0","0",":","1","A",":","2","B">>

MacAddresses == {Undefined, <<>>, Mac}

PlanIds == {<<"7">>}

ProviderUrl == <<"h","t","t","p",":","/","/","p",".","i","o">>

ServerUrl == <<"h","t","t","p",":","/","/","m",".","i","o">>

EnvNames ==
    {"IPTV_PROVIDER_URL", "IPTV_PROVIDER_USERNAME", "IPTV_PROVIDER_PASSWORD",
     "IPTV_SERVER_URL", "IPTV_BACKUP_SERVERS", "MAG_PORTAL_URL"}

\* the configurations: everything set, one variable unset, nothing set
Envs ==
    {e \in [IPTV_PROVIDER_URL : {Undefined, ProviderUrl},
            IPTV_PROVIDER_USERNAME : {Undefined, <<"u">>},
            IPTV_PROVIDER_PASSWORD : {Undefined, <<"p">>},
            IPTV_SERVER_URL : {Undefined, ServerUrl},
            IPTV_BACKUP_SERVERS : {Undefined, <<"b">>},
            MAG_PORTAL_URL : {Undefined, <<"m">>}] :
        Cardinality({n \in EnvNames : e[n] = Undefined}) \in {0, 1, Cardinality(EnvNames)}}

\* values of new Date(): getFullYear, getMonth, getDate, getHours, getMinutes
Clocks ==
    {[year |-> 2026, month |-> 10, date |-> 1, hours |-> 20, minutes |-> 54],
     [year |-> 2009, month |-> 0, date |-> 9, hours |-> 0, minutes |-> 5]}

\* what an awaited operation of the automation library rejects with: an Error
\* carrying a message, or a value that is not an Error
Rejections(step) == {[isError |-> TRUE, message |-> step], [isError |-> FALSE, message |-> ""]}

NoError == [isError |-> FALSE, message |-> "none"]

NoResult == [pending |-> TRUE]

EmptyForm == [username |-> <<>>, password |-> <<>>, mac |-> <<>>, package |-> <<>>]

----------------------------------------------------------------------------
(* purchasePlan *)

endpointOf(ot) == IF ot = "MAG_DEVICE" THEN <<"/","m","a","g">> ELSE <<"/","l","i","n","e">>

providerUrlOf(baseUrl, ot) == baseUrl \o endpointOf(ot)

LoginPath == <<"/","l","o","g","i","n">>

DefaultServerUrl == <<"h","t","t","p",":","/","/","k","y","-","t","v",".","c","c",":","8","0","8","0">>

\* process.env.X || dflt
envOr(v, dflt) == IF Falsy(v) THEN dflt ELSE v

\* m3uUrlOf with the password where the username belongs
m3uUrlPasswordFirst(serverUrl, u, p) ==
    serverUrl
    \o <<"/","g","e","t",".","p","h","p","?","u","s","e","r","n","a","m","e","=">> \o p
    \o <<"&","p","a","s","s","w","o","r","d","=">> \o u
    \o <<"&","t","y","p","e","=","m","3","u","_","p","l","u","s","&","o","u","t","p","u","t","=","t","s">>

m3uUrlOf(serverUrl, u, p) ==
    serverUrl
    \o <<"/","g","e","t",".","p","h","p","?","u","s","e","r","n","a","m","e","=">> \o u
    \o <<"&","p","a","s","s","w","o","r","d","=">> \o p
    \o <<"&","t","y","p","e","=","m","3","u","_","p","l","u","s","&","o","u","t","p","u","t","=","t","s">>

epgUrlOf(serverUrl, u, p) ==
    serverUrl
    \o <<"/","x","m","l","t","v",".","p","h","p","?","u","s","e","r","n","a","m","e","=">> \o u
    \o <<"&","p","a","s","s","w","o","r","d","=">> \o p

\* successResult with the MAG_DEVICE fields set for every order type
successResultBothGroups(ot, u, p, mac, e) ==
    IF ot = "STANDARD"
    THEN [username |-> u, password |-> p, success |-> TRUE,
          serverUrl |-> envOr(e.IPTV_SERVER_URL, DefaultServerUrl),
          backupServers |-> envOr(e.IPTV_BACKUP_SERVERS, <<>>),
          m3uUrl |-> m3uUrlOf(envOr(e.IPTV_SERVER_URL, DefaultServerUrl), u, p),
          epgUrl |-> epgUrlOf(envOr(e.IPTV_SERVER_URL, DefaultServerUrl), u, p),
          macAddress |-> mac,
          portalURL |-> envOr(e.MAG_PORTAL_URL, <<>>)]
    ELSE [username |-> u, password |-> p, success |-> TRUE,
          macAddress |-> mac,
          portalURL |-> envOr(e.MAG_PORTAL_URL, <<>>)]

\* the object built on the success path
successResult(ot, u, p, mac, e) ==
    IF ot = "STANDARD"
    THEN [username |-> u, password |-> p, success |-> TRUE,
          serverUrl |-> envOr(e.IPTV_SERVER_URL, DefaultServerUrl),
          backupServers |-> envOr(e.IPTV_BACKUP_SERVERS, <<>>),
          m3uUrl |-> m3uUrlOf(envOr(e.IPTV_SERVER_URL, DefaultServerUrl), u, p),
          epgUrl |-> epgUrlOf(envOr(e.IPTV_SERVER_URL, DefaultServerUrl), u, p)]
    ELSE [username |-> u, password |-> p, success |-> TRUE,
          macAddress |-> mac,
          portalURL |-> envOr(e.MAG_PORTAL_URL, <<>>)]

\* failureResult returning the credentials generated before the failure
failureResultKeepsCredentials(err) ==
    [username |-> username, password |-> password, success |-> FALSE,
     error |-> IF err.isError THEN err.message ELSE "Unknown error occurred"]

\* the object built in the catch block
failureResult(err) ==
    [username |-> <<>>, password |-> <<>>, success |-> FALSE,
     error |-> IF err.isError THEN err.message ELSE "Unknown error occurred"]

\* the macAddress check compares with undefined only
macAddressMissingUndefinedOnly(mac) == mac = Undefined

\* !macAddress
macAddressMissing(mac) == Falsy(mac)

\* the login check taken as always true
loginRequiredAlways(u) == TRUE

\* page.url().includes("login")
loginRequired(u) == includes(u, <<"l","o","g","i","n">>)

inputs == <<planId, email, orderType, macAddress, isFreeTrial, env>>

\* an awaited operation rejects: control passes to the catch block
Reject(step) ==
    \E err \in Rejections(step) :
        /\ pc' = "catch"
        /\ caught' = err
        /\ failedAt' = step
        /\ faults' = faults + 1

\* a throw statement of purchasePlan itself
Throw(msg, step) ==
    /\ pc' = "catch"
    /\ caught' = [isError |-> TRUE, message |-> msg]
    /\ failedAt' = step
    /\ faults' = faults

Continue(next) ==
    /\ pc' = next
    /\ UNCHANGED <<caught, failedAt, faults>>

\* no direct call of generateUsernameFromEmail
CredIdle ==
    /\ fnEmail = <<>>
    /\ fnNow = CHOOSE c \in Clocks : TRUE
    /\ fnOut = NoResult
    /\ fnOut2 = NoResult

\* no direct call of generatePassword
PwIdle ==
    /\ pwLen = 0
    /\ pwOut = NoResult
    /\ pwOut2 = NoResult

\* no direct call of isValidEmail
ValidIdle ==
    /\ vEmail = <<>>
    /\ vOut = NoResult

StepNames ==
    {"launch", "newPage", "goto", "loginTypeUsername", "loginTypePassword",
     "loginSubmit", "select", "typeUsername", "typePassword", "typeMac",
     "clickTab", "waitForSubmit", "clickSubmit", "waitForNavigation", "settle",
     "close", "catch"}

\* the awaited step purchasePlan is suspended at is executed once more
Count == steps' = [steps EXCEPT ![pc] = @ + 1]

NoReadings == [read |-> FALSE]

\* nothing executed yet
TrackInit ==
    /\ steps = [s \in StepNames |-> 0]
    /\ landedUrl = <<>>
    /\ nav = "none"
    /\ waitFrom = "unregistered"
    /\ handlerInstalled = FALSE
    /\ readings = NoReadings

NoRequest == [absent |-> TRUE]

\* no HTTP request
HttpIdle ==
    /\ req = NoRequest
    /\ allowedOrigins = {}
    /\ apiKeyEnv = Undefined
    /\ httpPc = "idle"
    /\ response = NoResult

\* no dialog raised
DialogIdle ==
    /\ dialogs = 0
    /\ accepted = 0
    /\ unhandled = 0

NoOther == [absent |-> TRUE]

\* no second invocation
PairIdle ==
    /\ other = NoOther
    /\ self = 1

ServiceIdle == HttpIdle /\ DialogIdle /\ PairIdle

\* purchasePlan not called yet
NotInvoked ==
    /\ planId = <<"7">>
    /\ email = <<>>
    /\ orderType = "STANDARD"
    /\ macAddress = Undefined
    /\ isFreeTrial = FALSE
    /\ pc = "idle"
    /\ browser = FALSE
    /\ browserOpen = FALSE
    /\ closeCalls = 0
    /\ url = <<>>
    /\ form = EmptyForm
    /\ username = <<>>
    /\ password = <<>>
    /\ caught = NoError
    /\ failedAt = "none"
    /\ faults = 0
    /\ result = NoResult
    /\ TrackInit

\* no invocation of purchasePlan
PurchaseIdle ==
    /\ planId = <<"7">>
    /\ email = <<>>
    /\ orderType = "STANDARD"
    /\ macAddress = Undefined
    /\ isFreeTrial = FALSE
    /\ env = CHOOSE e \in Envs : \A n \in EnvNames : e[n] = Undefined
    /\ pc = "idle"
    /\ browser = FALSE
    /\ browserOpen = FALSE
    /\ closeCalls = 0
    /\ url = <<>>
    /\ form = EmptyForm
    /\ username = <<>>
    /\ password = <<>>
    /\ caught = NoError
    /\ failedAt = "none"
    /\ faults = 0
    /\ result = NoResult
    /\ TrackInit

Init ==
    /\ planId \in PlanIds
    /\ email \in Emails
    /\ orderType \in OrderTypes
    /\ macAddress \in MacAddresses
    /\ isFreeTrial \in BOOLEAN
    /\ env \in Envs
    /\ rng \in 0..(RandomLevels - 1)
    /\ pc = "launch"
    /\ browser = FALSE
    /\ browserOpen = FALSE
    /\ closeCalls = 0
    /\ url = <<>>
    /\ form = EmptyForm
    /\ username = <<>>
    /\ password = <<>>
    /\ caught = NoError
    /\ failedAt = "none"
    /\ faults = 0
    /\ result = NoResult
    /\ TrackInit
    /\ CredIdle
    /\ PwIdle
    /\ ValidIdle
    /\ ServiceIdle

\* browser = await puppeteer.launch(...)
Launch ==
    /\ pc = "launch"
    /\ \/ /\ browser' = TRUE
          /\ browserOpen' = TRUE
          /\ Continue("newPage")
       \/ /\ Reject("launch")
          /\ UNCHANGED <<browser, browserOpen>>
    /\ UNCHANGED <<inputs, rng, closeCalls, url, form, username, password, result, outerVars>>
    /\ Count
    /\ UNCHANGED trackVars

\* page = await browser.newPage(), then the dialog handler is installed, the
\* provider URL is read from the configuration and page.goto is started
NewPage ==
    /\ pc = "newPage"
    /\ \/ /\ handlerInstalled' = TRUE
          /\ IF Falsy(env.IPTV_PROVIDER_URL)
             THEN Throw("IPTV_PROVIDER_URL not set in environment variables", "config")
             ELSE Continue("goto")
       \/ /\ Reject("newPage")
          /\ UNCHANGED handlerInstalled
    /\ UNCHANGED <<inputs, rng, browser, browserOpen, closeCalls, url, form,
                   username, password, result, outerVars>>
    /\ Count
    /\ UNCHANGED <<landedUrl, nav, waitFrom, readings>>

\* await page.goto(providerUrl), then the login check
Goto ==
    /\ pc = "goto"
    /\ \/ \E landed \in {providerUrlOf(env.IPTV_PROVIDER_URL, orderType),
                         env.IPTV_PROVIDER_URL \o LoginPath} :
              /\ url' = landed
              /\ landedUrl' = landed
              /\ form' = EmptyForm
              /\ IF loginRequired(landed)
                 THEN IF Falsy(env.IPTV_PROVIDER_USERNAME) \/ Falsy(env.IPTV_PROVIDER_PASSWORD)
                      THEN Throw("IPTV provider credentials not set in environment variables", "loginConfig")
                      ELSE Continue("loginTypeUsername")
                 ELSE Continue("select")
       \/ /\ Reject("goto")
          /\ UNCHANGED <<url, form, landedUrl>>
    /\ UNCHANGED <<inputs, rng, browser, browserOpen, closeCalls, username,
                   password, result, outerVars>>
    /\ Count
    /\ UNCHANGED <<nav, waitFrom, handlerInstalled, readings>>

\* await page.type("#username", providerUsername)
LoginTypeUsername ==
    /\ pc = "loginTypeUsername"
    /\ \/ /\ form' = [form EXCEPT !.username = @ \o env.IPTV_PROVIDER_USERNAME]
          /\ Continue("loginTypePassword")
       \/ /\ Reject("loginTypeUsername")
          /\ UNCHANGED form
    /\ UNCHANGED <<inputs, rng, browser, browserOpen, closeCalls, url, username,
                   password, result, outerVars>>
    /\ Count
    /\ UNCHANGED trackVars

\* await page.type("#password", providerPassword)
LoginTypePassword ==
    /\ pc = "loginTypePassword"
    /\ \/ /\ form' = [form EXCEPT !.password = @ \o env.IPTV_PROVIDER_PASSWORD]
          /\ Continue("loginSubmit")
       \/ /\ Reject("loginTypePassword")
          /\ UNCHANGED form
    /\ UNCHANGED <<inputs, rng, browser, browserOpen, closeCalls, url, username,
                   password, result, outerVars>>
    /\ Count
    /\ UNCHANGED trackVars

\* await Promise.all([page.waitForNavigation(...), page.click("#login_button")])
LoginSubmit ==
    /\ pc = "loginSubmit"
    /\ \/ /\ url' = providerUrlOf(env.IPTV_PROVIDER_URL, orderType)
          /\ form' = EmptyForm
          /\ Continue("select")
       \/ /\ Reject("loginSubmit")
          /\ UNCHANGED <<url, form>>
    /\ UNCHANGED <<inputs, rng, browser, browserOpen, closeCalls, username,
                   password, result, outerVars>>
    /\ Count
    /\ UNCHANGED trackVars

\* await page.select("#package", planId), then the order-type branch up to
\* its first await: the credentials are generated for a STANDARD order, the
\* macAddress is checked otherwise
SelectPlan ==
    /\ pc = "select"
    /\ \/ /\ form' = [form EXCEPT !.package = planId]
          /\ IF orderType = "STANDARD"
             THEN \E now \in Clocks :
                    LET u == generateUsernameFromEmail(email, now)
                        g == generatePassword(DefaultPasswordLength, rng)
                    IN  IF u.threw
                        THEN /\ Throw(u.message, "generateUsername")
                             /\ UNCHANGED <<username, password, rng, readings>>
                        ELSE /\ username' = u.value
                             /\ password' = g.password
                             /\ rng' = g.rng
                             /\ readings' = [read |-> TRUE, now |-> now, seed |-> rng]
                             /\ Continue("typeUsername")
             ELSE /\ IF macAddressMissing(macAddress)
                     THEN Throw("macAddress is required for MAG_DEVICE orders", "macCheck")
                     ELSE Continue("typeMac")
                  /\ UNCHANGED <<username, password, rng, readings>>
       \/ /\ Reject("select")
          /\ UNCHANGED <<form, username, password, rng, readings>>
    /\ UNCHANGED <<inputs, browser, browserOpen, closeCalls, url, result, outerVars>>
    /\ Count
    /\ UNCHANGED <<landedUrl, nav, waitFrom, handlerInstalled>>

\* await page.type("#username", username)
TypeUsername ==
    /\ pc = "typeUsername"
    /\ \/ /\ form' = [form EXCEPT !.username = @ \o username]
          /\ Continue("typePassword")
       \/ /\ Reject("typeUsername")
          /\ UNCHANGED form
    /\ UNCHANGED <<inputs, rng, browser, browserOpen, closeCalls, url, username,
                   password, result, outerVars>>
    /\ Count
    /\ UNCHANGED trackVars

\* await page.type("#password", password)
TypePassword ==
    /\ pc = "typePassword"
    /\ \/ /\ form' = [form EXCEPT !.password = @ \o password]
          /\ Continue("clickTab")
       \/ /\ Reject("typePassword")
          /\ UNCHANGED form
    /\ UNCHANGED <<inputs, rng, browser, browserOpen, closeCalls, url, username,
                   password, result, outerVars>>
    /\ Count
    /\ UNCHANGED trackVars

\* TypeMac without the assignment username = macAddress
TypeMacKeepsUsername ==
    /\ pc = "typeMac"
    /\ \/ /\ form' = [form EXCEPT !.mac = @ \o macAddress]
          /\ username' = username
          /\ password' = <<>>
          /\ Continue("clickTab")
       \/ /\ Reject("typeMac")
          /\ UNCHANGED <<form, username, password>>
    /\ UNCHANGED <<inputs, rng, browser, browserOpen, closeCalls, url, result, outerVars>>
    /\ Count
    /\ UNCHANGED trackVars

\* await page.type("#mac", macAddress); username = macAddress; password = ""
TypeMac ==
    /\ pc = "typeMac"
    /\ \/ /\ form' = [form EXCEPT !.mac = @ \o macAddress]
          /\ username' = macAddress
          /\ password' = <<>>
          /\ Continue("clickTab")
       \/ /\ Reject("typeMac")
          /\ UNCHANGED <<form, username, password>>
    /\ UNCHANGED <<inputs, rng, browser, browserOpen, closeCalls, url, result, outerVars>>
    /\ Count
    /\ UNCHANGED trackVars

\* an awaited page operation that changes nothing the model records
PageStep(here, next) ==
    /\ pc = here
    /\ \/ Continue(next)
       \/ Reject(here)
    /\ UNCHANGED <<inputs, rng, browser, browserOpen, closeCalls, url, form,
                   username, password, result, outerVars>>
    /\ Count
    /\ UNCHANGED trackVars

\* await page.click("#user-details > ul > li > a")
ClickTab == PageStep("clickTab", "waitForSubmit")

\* the wait for the submit button, going back to the tab click when it fails
WaitForSubmitRetries ==
    /\ pc = "waitForSubmit"
    /\ \/ Continue("clickSubmit")
       \/ /\ pc' = "clickTab"
          /\ faults' = faults + 1
          /\ UNCHANGED <<caught, failedAt>>
    /\ UNCHANGED <<inputs, rng, browser, browserOpen, closeCalls, url, form,
                   username, password, result, outerVars>>
    /\ Count
    /\ UNCHANGED trackVars

\* await page.waitForSelector("#submit_button", { visible: true })
WaitForSubmit == PageStep("waitForSubmit", "clickSubmit")

\* page.click("#submit_button") reaches the page: the form is submitted and
\* the promise of the click is pending
ClickSubmit ==
    /\ pc = "clickSubmit"
    /\ \/ Continue("clickSubmitted")
       \/ Reject("clickSubmit")
    /\ UNCHANGED <<inputs, rng, browser, browserOpen, closeCalls, url, form,
                   username, password, result, outerVars>>
    /\ Count
    /\ UNCHANGED trackVars

\* the provider's page, once the form is submitted: the navigation starts
NavigationStart ==
    /\ pc \in {"clickSubmitted", "waitForNavigation"}
    /\ browserOpen
    /\ nav = "none"
    /\ nav' = "started"
    /\ UNCHANGED <<inputs, rng, pc, browser, browserOpen, closeCalls, url, form,
                   username, password, caught, failedAt, faults, result, steps,
                   landedUrl, waitFrom, handlerInstalled, readings, outerVars>>

\* the new document is committed
NavigationCommit ==
    /\ pc \in {"clickSubmitted", "waitForNavigation"}
    /\ browserOpen
    /\ nav = "started"
    /\ nav' = "committed"
    /\ UNCHANGED <<inputs, rng, pc, browser, browserOpen, closeCalls, url, form,
                   username, password, caught, failedAt, faults, result, steps,
                   landedUrl, waitFrom, handlerInstalled, readings, outerVars>>

\* the network of the new document is idle
NavigationIdle ==
    /\ pc \in {"clickSubmitted", "waitForNavigation"}
    /\ browserOpen
    /\ nav = "committed"
    /\ nav' = "idle"
    /\ UNCHANGED <<inputs, rng, pc, browser, browserOpen, closeCalls, url, form,
                   username, password, caught, failedAt, faults, result, steps,
                   landedUrl, waitFrom, handlerInstalled, readings, outerVars>>

\* await page.click("#submit_button") resolves, and only then
\* page.waitForNavigation is called: the wait is registered at whatever point
\* the provider's navigation has reached
ClickResolved ==
    /\ pc = "clickSubmitted"
    /\ waitFrom' = nav
    /\ Continue("waitForNavigation")
    /\ UNCHANGED <<inputs, rng, browser, browserOpen, closeCalls, url, form,
                   username, password, result, steps, landedUrl, nav,
                   handlerInstalled, readings>>
    /\ UNCHANGED outerVars

NavigationTimeout == "Navigation timeout of 30000 ms exceeded"

\* the wait sees the navigation it was registered before: a wait registered
\* after the new document was committed waits for another navigation
waitResolves == nav = "idle" /\ waitFrom \in {"none", "started"}

\* await page.waitForNavigation({ waitUntil: "networkidle0" }): it resolves
\* when the navigation it saw committing is idle, and rejects with a timeout
\* after the default timeout of the page otherwise
WaitForNavigation ==
    /\ pc = "waitForNavigation"
    /\ \/ /\ waitResolves
          /\ waitFrom' = "disposed"
          /\ Continue("settle")
       \/ /\ ~waitResolves
          /\ Throw(NavigationTimeout, "waitForNavigation")
          /\ UNCHANGED waitFrom
       \/ /\ Reject("waitForNavigation")
          /\ UNCHANGED waitFrom
    /\ UNCHANGED <<inputs, rng, browser, browserOpen, closeCalls, url, form,
                   username, password, result, outerVars>>
    /\ Count
    /\ UNCHANGED <<landedUrl, nav, handlerInstalled, readings>>

\* the settling delay left out of a free trial
SettleNotOnTrial ==
    IF isFreeTrial
    THEN /\ pc = "settle"
         /\ Continue("close")
         /\ UNCHANGED <<inputs, rng, browser, browserOpen, closeCalls, url, form,
                        username, password, result, steps, trackVars, outerVars>>
    ELSE PageStep("settle", "close")

\* await page.waitForTimeout(2000)
Settle == PageStep("settle", "close")

\* if (browser) await browser.close() inside the try block, then the result
\* is built and returned.  A close that rejects may or may not have ended
\* the browser process.
CloseSuccess ==
    /\ pc = "close"
    /\ closeCalls' = closeCalls + 1
    /\ \/ /\ browserOpen' = FALSE
          /\ result' = successResult(orderType, username, password, macAddress, env)
          /\ Continue("returned")
       \/ /\ browserOpen' \in BOOLEAN
          /\ Reject("close")
          /\ UNCHANGED result
    /\ UNCHANGED <<inputs, rng, browser, url, form, username, password, outerVars>>
    /\ Count
    /\ UNCHANGED trackVars

\* the catch block without its browser.close()
CatchWithoutClose ==
    /\ pc = "catch"
    /\ result' = failureResult(caught)
    /\ pc' = "returned"
    /\ UNCHANGED <<closeCalls, browserOpen, caught, faults>>
    /\ UNCHANGED <<inputs, rng, browser, url, form, username, password, failedAt, outerVars>>
    /\ Count
    /\ UNCHANGED trackVars

\* the catch block: if (browser) await browser.close(), then the failure
\* result is returned.  A rejection of this close leaves the catch block as
\* the rejection of purchasePlan's promise.
Catch ==
    /\ pc = "catch"
    /\ IF browser
       THEN /\ closeCalls' = closeCalls + 1
            /\ \/ /\ browserOpen' = FALSE
                  /\ result' = failureResult(caught)
                  /\ pc' = "returned"
                  /\ UNCHANGED <<caught, faults>>
               \/ \E err \in Rejections("catchClose") :
                  /\ browserOpen' \in BOOLEAN
                  /\ pc' = "raised"
                  /\ caught' = err
                  /\ faults' = faults + 1
                  /\ UNCHANGED result
       ELSE /\ result' = failureResult(caught)
            /\ pc' = "returned"
            /\ UNCHANGED <<closeCalls, browserOpen, caught, faults>>
    /\ UNCHANGED <<inputs, rng, browser, url, form, username, password, failedAt, outerVars>>
    /\ Count
    /\ UNCHANGED trackVars

Next ==
    \/ Launch
    \/ NewPage
    \/ Goto
    \/ LoginTypeUsername
    \/ LoginTypePassword
    \/ LoginSubmit
    \/ SelectPlan
    \/ TypeUsername
    \/ TypePassword
    \/ TypeMac
    \/ ClickTab
    \/ WaitForSubmit
    \/ ClickSubmit
    \/ NavigationStart
    \/ NavigationCommit
    \/ NavigationIdle
    \/ ClickResolved
    \/ WaitForNavigation
    \/ Settle
    \/ CloseSuccess
    \/ Catch

Spec == Init /\ [][Next]_vars

----------------------------------------------------------------------------
(* Direct calls of generateUsernameFromEmail *)

MaxTail == 2

FnChars == {"a", "Z", "7", ".", "@", "_"}

RECURSIVE SeqsUpTo(_, _)
SeqsUpTo(S, n) ==
    IF n = 0 THEN {<<>>}
    ELSE SeqsUpTo(S, n - 1) \cup {Append(t, c) : t \in SeqsUpTo(S, n - 1), c \in S}

\* the beginnings of the emails: nothing, five letters around a dot, and
\* more letters than the prefix keeps
FnStems == {<<>>, <<"j","a","n","e",".","d">>, <<"A","b","c","d","e","f","g">>}

FnEmails == {stem \o tail : stem \in FnStems, tail \in SeqsUpTo(FnChars, MaxTail)}

FnClocks ==
    [year : {1970, 2009, 2026, 10000}, month : {0, 9, 11}, date : {1, 31},
     hours : {0, 23}, minutes : {0, 59}]

InitCred ==
    /\ PurchaseIdle
    /\ rng = 0
    /\ fnEmail \in FnEmails
    /\ fnNow \in FnClocks
    /\ fnOut = NoResult
    /\ fnOut2 = NoResult
    /\ PwIdle
    /\ ValidIdle
    /\ ServiceIdle

\* generateUsernameFromEmail(fnEmail) called while the clock reads fnNow
CallGenerateUsername ==
    /\ fnOut = NoResult
    /\ fnOut' = generateUsernameFromEmail(fnEmail, fnNow)
    /\ UNCHANGED <<purchaseVars, fnEmail, fnNow, fnOut2, pwVars, validVars, serviceVars>>

\* a second call with the same email, the clock still reading fnNow
CallGenerateUsernameAgain ==
    /\ fnOut # NoResult
    /\ fnOut2 = NoResult
    /\ fnOut2' = generateUsernameFromEmail(fnEmail, fnNow)
    /\ UNCHANGED <<purchaseVars, fnEmail, fnNow, fnOut, pwVars, validVars, serviceVars>>

NextCred ==
    \/ CallGenerateUsername
    \/ CallGenerateUsernameAgain

SpecCred == InitCred /\ [][NextCred]_vars

----------------------------------------------------------------------------
(* Direct calls of generatePassword *)

MaxPwLen == 10

InitPw ==
    /\ PurchaseIdle
    /\ rng \in 0..(RandomLevels - 1)
    /\ CredIdle
    /\ pwLen \in (0 - MaxPwLen)..MaxPwLen
    /\ pwOut = NoResult
    /\ pwOut2 = NoResult
    /\ ValidIdle
    /\ ServiceIdle

\* generatePassword(pwLen)
CallGeneratePassword ==
    /\ pwOut = NoResult
    /\ pwOut' = Returned(generatePassword(pwLen, rng).password)
    /\ rng' = generatePassword(pwLen, rng).rng
    /\ UNCHANGED <<planId, email, orderType, macAddress, isFreeTrial, env, pc,
                   browser, browserOpen, closeCalls, url, form, username,
                   password, caught, failedAt, faults, result, steps, trackVars>>
    /\ UNCHANGED <<fnVars, pwLen, pwOut2, validVars, serviceVars>>

\* a second call, Math.random going on from where the first call left it
CallGeneratePasswordAgain ==
    /\ pwOut # NoResult
    /\ pwOut2 = NoResult
    /\ pwOut2' = Returned(generatePassword(pwLen, rng).password)
    /\ rng' = generatePassword(pwLen, rng).rng
    /\ UNCHANGED <<planId, email, orderType, macAddress, isFreeTrial, env, pc,
                   browser, browserOpen, closeCalls, url, form, username,
                   password, caught, failedAt, faults, result, steps, trackVars>>
    /\ UNCHANGED <<fnVars, pwLen, pwOut, validVars, serviceVars>>

NextPw ==
    \/ CallGeneratePassword
    \/ CallGeneratePasswordAgain

SpecPw == InitPw /\ [][NextPw]_vars

----------------------------------------------------------------------------
(* Direct calls of isValidEmail *)

MaxValidLen == 5

ValidChars == {"a", ".", "@", " ", "\n"}

InitValid ==
    /\ PurchaseIdle
    /\ rng = 0
    /\ CredIdle
    /\ PwIdle
    /\ vEmail \in SeqsUpTo(ValidChars, MaxValidLen)
    /\ vOut = NoResult
    /\ ServiceIdle

\* isValidEmail(vEmail)
CallIsValidEmail ==
    /\ vOut = NoResult
    /\ vOut' = Returned(isValidEmail(vEmail))
    /\ UNCHANGED <<purchaseVars, fnVars, pwVars, vEmail, serviceVars>>

NextValid == CallIsValidEmail

SpecValid == InitValid /\ [][NextValid]_vars

-----------------------------------------------------------------------------
(* The HTTP route POST /purchase-plan *)

Origin == <<"o">>

ApiKey == <<"k">>

\* a property the JSON body does not have, where the value is a type name
UndefinedType == "undefined"

FullEnv == CHOOSE e \in Envs : \A n \in EnvNames : e[n] # Undefined

\* the requests: the Origin and x-api-key headers, a body that is not JSON,
\* and the properties of a JSON body
Requests ==
    [origin : {Undefined, Origin, <<"x">>},
     apiKey : {Undefined, ApiKey, <<"w">>},
     malformed : BOOLEAN,
     planId : {Undefined, <<>>, <<"7">>},
     email : {Undefined, EmailShort, EmailNoAt},
     orderType : {UndefinedType, "STANDARD", "MAG_DEVICE", "OTHER"},
     macAddress : {Undefined, Mac},
     isFreeTrial : {"undefined", "true"}]

InitHttp ==
    /\ NotInvoked
    /\ env = FullEnv
    /\ rng = 0
    /\ CredIdle
    /\ PwIdle
    /\ ValidIdle
    /\ DialogIdle
    /\ PairIdle
    /\ req \in Requests
    /\ allowedOrigins \in {{}, {Origin}}
    /\ apiKeyEnv \in {Undefined, <<>>, ApiKey}
    /\ httpPc = "cors"
    /\ response = NoResult

\* res.status(status).json(body)
Send(status, body) ==
    /\ response' = [status |-> status, body |-> body]
    /\ httpPc' = "responded"

\* cors(corsOptions): a request without Origin or with an allowed one goes
\* on, any other is ended by the error passed to the callback
Cors ==
    /\ httpPc = "cors"
    /\ IF Falsy(req.origin) \/ req.origin \in allowedOrigins
       THEN httpPc' = "json" /\ UNCHANGED response
       ELSE Send(500, [error |-> "Not allowed by CORS"])
    /\ UNCHANGED <<purchaseVars, fnVars, pwVars, validVars, req, allowedOrigins,
                   apiKeyEnv, dialogVars, pairVars>>

\* express.json(): a body that does not parse ends the request
ParseJson ==
    /\ httpPc = "json"
    /\ IF req.malformed
       THEN Send(400, [error |-> "entity.parse.failed"])
       ELSE httpPc' = "auth" /\ UNCHANGED response
    /\ UNCHANGED <<purchaseVars, fnVars, pwVars, validVars, req, allowedOrigins,
                   apiKeyEnv, dialogVars, pairVars>>

\* the key check accepting any key that is present
AuthenticateApiKeyPresentOnly ==
    /\ httpPc = "auth"
    /\ IF Falsy(apiKeyEnv)
       THEN Send(500, [error |-> "API key not configured"])
       ELSE IF Falsy(req.apiKey)
            THEN Send(401, [error |-> "Unauthorized: Invalid API key"])
            ELSE httpPc' = "route" /\ UNCHANGED response
    /\ UNCHANGED <<purchaseVars, fnVars, pwVars, validVars, req, allowedOrigins,
                   apiKeyEnv, dialogVars, pairVars>>

AuthenticateApiKey ==
    /\ httpPc = "auth"
    /\ IF Falsy(apiKeyEnv)
       THEN Send(500, [error |-> "API key not configured"])
       ELSE IF Falsy(req.apiKey) \/ req.apiKey # apiKeyEnv
            THEN Send(401, [error |-> "Unauthorized: Invalid API key"])
            ELSE httpPc' = "route" /\ UNCHANGED response
    /\ UNCHANGED <<purchaseVars, fnVars, pwVars, validVars, req, allowedOrigins,
                   apiKeyEnv, dialogVars, pairVars>>

\* the route handler up to its await: the body is destructured with its
\* defaults, validated, and purchasePlan is called
PurchasePlanRoute ==
    /\ httpPc = "route"
    /\ IF Falsy(req.planId) \/ Falsy(req.email)
       THEN /\ Send(400, [error |-> "planId and email are required"])
            /\ UNCHANGED <<inputs, pc>>
       ELSE /\ planId' = req.planId
            /\ email' = req.email
            /\ orderType' = IF req.orderType = UndefinedType THEN "STANDARD" ELSE req.orderType
            /\ macAddress' = req.macAddress
            /\ isFreeTrial' = (req.isFreeTrial = "true")
            /\ pc' = "launch"
            /\ httpPc' = "awaiting"
            /\ UNCHANGED <<env, response>>
    /\ UNCHANGED <<rng, browser, browserOpen, closeCalls, url, form, username,
                   password, caught, failedAt, faults, result, steps, trackVars>>
    /\ UNCHANGED <<fnVars, pwVars, validVars, req, allowedOrigins, apiKeyEnv,
                   dialogVars, pairVars>>

\* the rest of the handler: res.json(result), or the catch block when the
\* promise of purchasePlan rejected
RouteRespond ==
    /\ httpPc = "awaiting"
    /\ pc \in {"returned", "raised"}
    /\ IF pc = "returned"
       THEN Send(200, result)
       ELSE Send(500, [username |-> <<>>, password |-> <<>>, success |-> FALSE,
                       error |-> IF caught.isError THEN caught.message
                                 ELSE "Internal server error"])
    /\ UNCHANGED <<purchaseVars, fnVars, pwVars, validVars, req, allowedOrigins,
                   apiKeyEnv, dialogVars, pairVars>>

NextHttp ==
    \/ Cors
    \/ ParseJson
    \/ AuthenticateApiKey
    \/ PurchasePlanRoute
    \/ RouteRespond
    \/ Launch
    \/ NewPage
    \/ Goto
    \/ LoginTypeUsername
    \/ LoginTypePassword
    \/ LoginSubmit
    \/ SelectPlan
    \/ TypeUsername
    \/ TypePassword
    \/ TypeMac
    \/ ClickTab
    \/ WaitForSubmit
    \/ ClickSubmit
    \/ NavigationStart
    \/ NavigationCommit
    \/ NavigationIdle
    \/ ClickResolved
    \/ WaitForNavigation
    \/ Settle
    \/ CloseSuccess
    \/ Catch

SpecHttp == InitHttp /\ [][NextHttp]_vars

----------------------------------------------------------------------------
(* The dialog handler of the page *)

MaxDialogs == 1

\* a started invocation of a well-formed order under a full configuration
Started ==
    /\ planId \in PlanIds
    /\ email = EmailShort
    /\ orderType \in {"STANDARD", "MAG_DEVICE"}
    /\ macAddress = Mac
    /\ isFreeTrial = FALSE
    /\ env = FullEnv
    /\ pc = "launch"
    /\ browser = FALSE
    /\ browserOpen = FALSE
    /\ closeCalls = 0
    /\ url = <<>>
    /\ form = EmptyForm
    /\ username = <<>>
    /\ password = <<>>
    /\ caught = NoError
    /\ failedAt = "none"
    /\ faults = 0
    /\ result = NoResult
    /\ TrackInit

InitDialog ==
    /\ Started
    /\ rng = 0
    /\ CredIdle
    /\ PwIdle
    /\ ValidIdle
    /\ HttpIdle
    /\ DialogIdle
    /\ PairIdle

\* the provider's page raises a dialog: the handler is called, logs the
\* message and calls dialog.accept(), whose promise it awaits
DialogRaised ==
    /\ browserOpen
    /\ handlerInstalled
    /\ pc = "goto" \/ landedUrl # <<>>
    /\ dialogs + accepted + unhandled < MaxDialogs
    /\ dialogs' = dialogs + 1
    /\ UNCHANGED <<purchaseVars, fnVars, pwVars, validVars, httpVars, accepted,
                   unhandled, pairVars>>

\* the promise of dialog.accept() settles: it resolves while the session is
\* there and rejects once the browser is closed; the handler has no catch and
\* nothing awaits the promise the handler returned
DialogAccept ==
    /\ dialogs > 0
    /\ dialogs' = dialogs - 1
    /\ IF browserOpen
       THEN accepted' = accepted + 1 /\ UNCHANGED unhandled
       ELSE unhandled' = unhandled + 1 /\ UNCHANGED accepted
    /\ UNCHANGED <<purchaseVars, fnVars, pwVars, validVars, httpVars, pairVars>>

NextDialog ==
    \/ DialogRaised
    \/ DialogAccept
    \/ Launch
    \/ NewPage
    \/ Goto
    \/ LoginTypeUsername
    \/ LoginTypePassword
    \/ LoginSubmit
    \/ SelectPlan
    \/ TypeUsername
    \/ TypePassword
    \/ TypeMac
    \/ ClickTab
    \/ WaitForSubmit
    \/ ClickSubmit
    \/ NavigationStart
    \/ NavigationCommit
    \/ NavigationIdle
    \/ ClickResolved
    \/ WaitForNavigation
    \/ Settle
    \/ CloseSuccess
    \/ Catch

SpecDialog == InitDialog /\ [][NextDialog]_vars

-----------------------------------------------------------------------------
(* Two concurrent invocations of purchasePlan *)

\* what an invocation owns: its arguments, its locals and its position
Context ==
    [planId |-> planId,
     email |-> email,
     orderType |-> orderType,
     macAddress |-> macAddress,
     isFreeTrial |-> isFreeTrial,
     pc |-> pc,
     browser |-> browser,
     browserOpen |-> browserOpen,
     closeCalls |-> closeCalls,
     url |-> url,
     form |-> form,
     username |-> username,
     password |-> password,
     caught |-> caught,
     failedAt |-> failedAt,
     faults |-> faults,
     result |-> result,
     steps |-> steps,
     landedUrl |-> landedUrl,
     nav |-> nav,
     waitFrom |-> waitFrom,
     handlerInstalled |-> handlerInstalled,
     readings |-> readings]

\* the second invocation, a MAG_DEVICE order started and suspended at its
\* first await
StartedContexts == {[Context EXCEPT !.orderType = "MAG_DEVICE"]}

InitPair ==
    /\ Started
    /\ orderType = "STANDARD"
    /\ rng = 0
    /\ CredIdle
    /\ PwIdle
    /\ ValidIdle
    /\ HttpIdle
    /\ DialogIdle
    /\ other \in StartedContexts
    /\ self = 1

\* two invocations sharing one module-level browser variable
SwitchSharingBrowser ==
    /\ other # NoOther
    /\ other.pc \notin {"returned", "raised"}
    /\ other' = Context
    /\ self' = 3 - self
    /\ planId' = other.planId
    /\ email' = other.email
    /\ orderType' = other.orderType
    /\ macAddress' = other.macAddress
    /\ isFreeTrial' = other.isFreeTrial
    /\ pc' = other.pc
    /\ url' = other.url
    /\ form' = other.form
    /\ username' = other.username
    /\ password' = other.password
    /\ caught' = other.caught
    /\ failedAt' = other.failedAt
    /\ faults' = other.faults
    /\ result' = other.result
    /\ steps' = other.steps
    /\ landedUrl' = other.landedUrl
    /\ nav' = other.nav
    /\ waitFrom' = other.waitFrom
    /\ handlerInstalled' = other.handlerInstalled
    /\ readings' = other.readings
    /\ UNCHANGED <<browser, browserOpen, closeCalls>>
    /\ UNCHANGED <<env, rng, fnVars, pwVars, validVars, httpVars, dialogVars>>

\* the invocation that is running is suspended at its await and the event
\* loop resumes the other one: each has its own arguments and locals, and
\* they share process.env and Math.random
Switch ==
    /\ other # NoOther
    /\ other.pc \notin {"returned", "raised"}
    /\ other' = Context
    /\ self' = 3 - self
    /\ planId' = other.planId
    /\ email' = other.email
    /\ orderType' = other.orderType
    /\ macAddress' = other.macAddress
    /\ isFreeTrial' = other.isFreeTrial
    /\ pc' = other.pc
    /\ browser' = other.browser
    /\ browserOpen' = other.browserOpen
    /\ closeCalls' = other.closeCalls
    /\ url' = other.url
    /\ form' = other.form
    /\ username' = other.username
    /\ password' = other.password
    /\ caught' = other.caught
    /\ failedAt' = other.failedAt
    /\ faults' = other.faults
    /\ result' = other.result
    /\ steps' = other.steps
    /\ landedUrl' = other.landedUrl
    /\ nav' = other.nav
    /\ waitFrom' = other.waitFrom
    /\ handlerInstalled' = other.handlerInstalled
    /\ readings' = other.readings
    /\ UNCHANGED <<env, rng, fnVars, pwVars, validVars, httpVars, dialogVars>>

NextPair ==
    \/ Switch
    \/ Launch
    \/ NewPage
    \/ Goto
    \/ LoginTypeUsername
    \/ LoginTypePassword
    \/ LoginSubmit
    \/ SelectPlan
    \/ TypeUsername
    \/ TypePassword
    \/ TypeMac
    \/ ClickTab
    \/ WaitForSubmit
    \/ ClickSubmit
    \/ NavigationStart
    \/ NavigationCommit
    \/ NavigationIdle
    \/ ClickResolved
    \/ WaitForNavigation
    \/ Settle
    \/ CloseSuccess
    \/ Catch

SpecPair == InitPair /\ [][NextPair]_vars

-----------------------------------------------------------------------------
(* Two invocations of purchasePlan that differ in isFreeTrial only *)

\* the first invocation has isFreeTrial = false; the second one, not started
\* yet, has the same arguments and isFreeTrial = true
InitTwin ==
    /\ Started
    /\ rng = 0
    /\ CredIdle
    /\ PwIdle
    /\ ValidIdle
    /\ HttpIdle
    /\ DialogIdle
    /\ other = [Context EXCEPT !.isFreeTrial = TRUE]
    /\ self = 1

\* the first invocation has ended and the second one is called, Math.random
\* being where it was when the first one was called
CallTwin ==
    /\ other # NoOther
    /\ self = 1
    /\ pc \in {"returned", "raised"}
    /\ other.pc = "launch"
    /\ other' = Context
    /\ self' = 2
    /\ rng' = IF readings.read THEN readings.seed ELSE rng
    /\ planId' = other.planId
    /\ email' = other.email
    /\ orderType' = other.orderType
    /\ macAddress' = other.macAddress
    /\ isFreeTrial' = other.isFreeTrial
    /\ pc' = other.pc
    /\ browser' = other.browser
    /\ browserOpen' = other.browserOpen
    /\ closeCalls' = other.closeCalls
    /\ url' = other.url
    /\ form' = other.form
    /\ username' = other.username
    /\ password' = other.password
    /\ caught' = other.caught
    /\ failedAt' = other.failedAt
    /\ faults' = other.faults
    /\ result' = other.result
    /\ steps' = other.steps
    /\ landedUrl' = other.landedUrl
    /\ nav' = other.nav
    /\ waitFrom' = other.waitFrom
    /\ handlerInstalled' = other.handlerInstalled
    /\ readings' = other.readings
    /\ UNCHANGED <<env, fnVars, pwVars, validVars, httpVars, dialogVars>>

NextTwin ==
    \/ CallTwin
    \/ Launch
    \/ NewPage
    \/ Goto
    \/ LoginTypeUsername
    \/ LoginTypePassword
    \/ LoginSubmit
    \/ SelectPlan
    \/ TypeUsername
    \/ TypePassword
    \/ TypeMac
    \/ ClickTab
    \/ WaitForSubmit
    \/ ClickSubmit
    \/ NavigationStart
    \/ NavigationCommit
    \/ NavigationIdle
    \/ ClickResolved
    \/ WaitForNavigation
    \/ Settle
    \/ CloseSuccess
    \/ Catch

SpecTwin == InitTwin /\ [][NextTwin]_vars

-----------------------------------------------------------------------------
(* Properties *)

Terminal == pc \in {"returned", "raised"}

StandardGroup == {"serverUrl", "backupServers", "m3uUrl", "epgUrl"}

MagGroup == {"macAddress", "portalURL"}

Populated(r, group) == group \subseteq DOMAIN r

Unpopulated(r, group) == group \cap DOMAIN r = {}

MacRequiredMessage == "macAddress is required for MAG_DEVICE orders"

\* C1: purchasePlan never raises to its caller: with a failure injected at
\* any single step, the invocation ends by returning a result, and a failure
\* is returned as success = false with an error message.
C1_NeverRaises ==
    (Terminal /\ faults <= 1) =>
        /\ pc = "returned"
        /\ failedAt # "none" => (~result.success /\ "error" \in DOMAIN result)

\* C2: on every exit path a browser session that was acquired has been
\* released when the invocation returns: a returned invocation that launched
\* a browser has no browser process left, and no terminal state has a
\* launched browser on which close was never invoked.
C2_SessionReleased ==
    /\ (pc = "returned" /\ browser) => (~browserOpen /\ closeCalls >= 1)
    /\ (Terminal /\ browser) => closeCalls >= 1
    /\ ~browser => (~browserOpen /\ closeCalls = 0)

\* a mid-form error (the macAddress check) after the session was acquired,
\* returned with the session released
C2_Witness ==
    /\ pc = "returned"
    /\ browser
    /\ failedAt = "macCheck"
    /\ ~browserOpen

\* C3: for an automation failure at any step after the session is acquired,
\* browser.close is invoked exactly once and the result has success = false
\* and a non-empty error.
C3_ReleasedExactlyOnce ==
    (pc = "returned" /\ browser /\ failedAt # "none") =>
        /\ closeCalls = 1
        /\ ~result.success
        /\ "error" \in DOMAIN result
        /\ result.error # ""

\* C4: every result returned satisfies: success = true implies error is
\* absent; success = false implies error is present and username and
\* password are empty, also after credentials were typed into the form.
C4_ResultShape ==
    pc = "returned" =>
        /\ result.success => "error" \notin DOMAIN result
        /\ ~result.success =>
              /\ "error" \in DOMAIN result
              /\ result.username = <<>>
              /\ result.password = <<>>

\* a failure returned after the generated credentials were typed
C4_Witness ==
    /\ pc = "returned"
    /\ ~result.success
    /\ orderType = "STANDARD"
    /\ username # <<>>
    /\ password # <<>>
    /\ form.username = username
    /\ form.password = password

\* C5 as stated: in every result returned exactly one of the two field
\* groups is populated, the STANDARD group for a STANDARD order and the
\* MAG_DEVICE group for a MAG_DEVICE order.
C5_ExactlyOneGroup ==
    pc = "returned" =>
        /\ \/ Populated(result, StandardGroup) /\ Unpopulated(result, MagGroup)
           \/ Populated(result, MagGroup) /\ Unpopulated(result, StandardGroup)
        /\ orderType = "STANDARD" => Populated(result, StandardGroup)
        /\ orderType = "MAG_DEVICE" => Populated(result, MagGroup)

\* C5 amended: a result with success = true has exactly one group populated,
\* the STANDARD group when orderType is STANDARD and the MAG_DEVICE group
\* otherwise; a result with success = false has neither group.
C5_GroupOnSuccess ==
    pc = "returned" =>
        IF result.success
        THEN IF orderType = "STANDARD"
             THEN Populated(result, StandardGroup) /\ Unpopulated(result, MagGroup)
             ELSE Populated(result, MagGroup) /\ Unpopulated(result, StandardGroup)
        ELSE Unpopulated(result, StandardGroup) /\ Unpopulated(result, MagGroup)

\* a successful STANDARD order
C5_Witness ==
    /\ pc = "returned"
    /\ result.success
    /\ orderType = "STANDARD"
    /\ Populated(result, StandardGroup)

\* C6 as stated: a MAG_DEVICE invocation without macAddress returns
\* success = false, the macAddress error, and empty username and password.
C6_MacRequiredError ==
    (pc = "returned" /\ orderType = "MAG_DEVICE" /\ macAddress \in {Undefined, <<>>}) =>
        result = [username |-> <<>>, password |-> <<>>, success |-> FALSE,
                  error |-> MacRequiredMessage]

\* C6 amended: a MAG_DEVICE invocation without macAddress never fills the MAC
\* field, and every result it returns has success = false and empty username
\* and password; the error is the macAddress error exactly when the steps
\* before the check, up to the plan selection, succeeded.
C6_MacRequiredWhenReached ==
    (orderType = "MAG_DEVICE" /\ macAddress \in {Undefined, <<>>}) =>
        /\ form.mac = <<>>
        /\ pc = "returned" =>
              /\ ~result.success
              /\ result.username = <<>>
              /\ result.password = <<>>
              /\ form.package = planId => result.error = MacRequiredMessage
              /\ form.package # planId => result.error # MacRequiredMessage

\* the macAddress check failed after the plan was selected
C6_Witness ==
    /\ pc = "returned"
    /\ orderType = "MAG_DEVICE"
    /\ macAddress = Undefined
    /\ form.package = planId
    /\ result.error = MacRequiredMessage

\* C7: for a STANDARD order whose automation succeeds, username and password
\* of the result are the values typed into the form, the password is 8
\* characters of a-z, and m3uUrl and epgUrl are the two templates filled
\* with serverUrl and those credentials.
C7_StandardCredentials ==
    (pc = "returned" /\ orderType = "STANDARD") =>
        /\ failedAt = "none" => result.success
        /\ result.success =>
              /\ result.username = form.username
              /\ result.password = form.password
              /\ Len(result.password) = 8
              /\ Range(result.password) \subseteq Range(LowerCase)
              /\ result.m3uUrl =
                    result.serverUrl
                    \o <<"/","g","e","t",".","p","h","p","?">>
                    \o <<"u","s","e","r","n","a","m","e","=">> \o result.username
                    \o <<"&","p","a","s","s","w","o","r","d","=">> \o result.password
                    \o <<"&","t","y","p","e","=","m","3","u","_","p","l","u","s">>
                    \o <<"&","o","u","t","p","u","t","=","t","s">>
              /\ result.epgUrl =
                    result.serverUrl
                    \o <<"/","x","m","l","t","v",".","p","h","p","?">>
                    \o <<"u","s","e","r","n","a","m","e","=">> \o result.username
                    \o <<"&","p","a","s","s","w","o","r","d","=">> \o result.password

\* a successful STANDARD order for an email whose prefix is truncated
C7_Witness ==
    /\ pc = "returned"
    /\ orderType = "STANDARD"
    /\ email = EmailLong
    /\ result.success
    /\ result.username # <<>>
    /\ result.password # <<>>

\* C8: for a MAG_DEVICE order with a non-empty macAddress whose automation
\* succeeds, the result has success = true, username = macAddress, an empty
\* password, macAddress echoed and portalURL the configured MAG_PORTAL_URL
\* (empty when unset), and the MAC field of the form holds macAddress.
C8_MagDeviceResult ==
    (pc = "returned" /\ orderType = "MAG_DEVICE" /\ macAddress \notin {Undefined, <<>>}
        /\ failedAt = "none") =>
        /\ result.success
        /\ result.username = macAddress
        /\ result.password = <<>>
        /\ result.macAddress = macAddress
        /\ result.portalURL =
              (IF env.MAG_PORTAL_URL = Undefined THEN <<>> ELSE env.MAG_PORTAL_URL)
        /\ form.mac = macAddress

\* a successful MAG_DEVICE order with MAG_PORTAL_URL set
C8_Witness ==
    /\ pc = "returned"
    /\ orderType = "MAG_DEVICE"
    /\ macAddress = Mac
    /\ failedAt = "none"
    /\ result.success
    /\ env.MAG_PORTAL_URL # Undefined

\* the positions of the letters and digits before the first "@"
AlnumBeforeAt(e) ==
    {i \in 1..Len(e) : IsAlnum(e[i]) /\ \A j \in 1..i : e[j] # "@"}

\* the j-th smallest element of a set of positions
NthOf(P, j) == CHOOSE i \in P : Cardinality({m \in P : m < i}) = j - 1

UpperOf(c) == IF c \in Range(LowerCase) THEN UpperCase[IndexIn(c, LowerCase)] ELSE c

ExpectedPrefix(e) ==
    [j \in 1..Min(6, Cardinality(AlnumBeforeAt(e))) |-> UpperOf(e[NthOf(AlnumBeforeAt(e), j)])]

TwoDigits(n) == <<Digits[((n \div 10) % 10) + 1], Digits[(n % 10) + 1]>>

ExpectedTimestamp(now) ==
    TwoDigits(now.year % 100) \o TwoDigits(now.month + 1) \o TwoDigits(now.date)
    \o TwoDigits(now.hours) \o TwoDigits(now.minutes)

\* C9: for an email with an "@" and a letter or digit before the first "@",
\* generateUsernameFromEmail returns at most 16 characters: the first up to 6
\* letters and digits of the part before "@", upper-cased, then the 10 digits
\* YYMMDDHHmm of the clock; a second call with the same email and clock
\* returns the same string.
C9_UsernameShape ==
    (fnOut # NoResult /\ "@" \in Range(fnEmail) /\ AlnumBeforeAt(fnEmail) # {}) =>
        /\ ~fnOut.threw
        /\ Len(fnOut.value) <= 16
        /\ Len(fnOut.value) - 10 \in 1..6
        /\ \A i \in 1..(Len(fnOut.value) - 10) :
              fnOut.value[i] \in Range(UpperCase) \cup Range(Digits)
        /\ \A i \in (Len(fnOut.value) - 9)..Len(fnOut.value) :
              fnOut.value[i] \in Range(Digits)
        /\ fnOut.value = ExpectedPrefix(fnEmail) \o ExpectedTimestamp(fnNow)
        /\ fnOut2 # NoResult => fnOut2 = fnOut

\* two calls for an email with more than 6 letters, a dot among them, in a
\* month, hour and minute of one digit
C9_Witness ==
    /\ fnOut # NoResult
    /\ fnOut2 = fnOut
    /\ ~fnOut.threw
    /\ Len(fnOut.value) = 16
    /\ "." \in Range(fnEmail)
    /\ fnNow.month = 0
    /\ fnNow.hours = 0

\* C10: for an email that is empty, has no "@" or has no letter or digit
\* before the first "@", generateUsernameFromEmail throws; inside a STANDARD
\* purchasePlan the invocation then returns success = false with no
\* credentials typed into the form.
C10_InvalidEmailFails ==
    /\ (orderType = "STANDARD" /\ (email = <<>> \/ "@" \notin Range(email) \/ AlnumBeforeAt(email) = {})) =>
          /\ pc \notin {"typeUsername", "typePassword", "clickTab", "waitForSubmit",
                        "clickSubmit", "waitForNavigation", "settle", "close"}
          /\ username = <<>>
          /\ password = <<>>
    /\ (Terminal /\ failedAt = "generateUsername") =>
          /\ pc = "returned"
          /\ ~result.success
          /\ form.username = <<>>
          /\ form.password = <<>>

\* C11 as stated: for every length n, 0 and negative integers included,
\* generatePassword(n) returns a string of length exactly n over a-z.
C11_PasswordLengthExact ==
    pwOut # NoResult =>
        /\ Len(pwOut.value) = pwLen
        /\ Range(pwOut.value) \subseteq Range(LowerCase)

\* C11 amended: generatePassword(n) returns a string over a-z of length
\* exactly n when n >= 0, and the empty string when n is negative.
C11_PasswordLength ==
    /\ pwOut # NoResult =>
          /\ Len(pwOut.value) = (IF pwLen >= 0 THEN pwLen ELSE 0)
          /\ \A i \in 1..Len(pwOut.value) : pwOut.value[i] \in Range(LowerCase)
    /\ pwOut2 # NoResult =>
          /\ Len(pwOut2.value) = (IF pwLen >= 0 THEN pwLen ELSE 0)
          /\ \A i \in 1..Len(pwOut2.value) : pwOut2.value[i] \in Range(LowerCase)

\* a call with a negative length returned the empty string
C11_Witness ==
    /\ pwOut # NoResult
    /\ pwLen < 0
    /\ pwOut.value = <<>>

\* C12: usernames produced by generateUsernameFromEmail are unique: any two
\* calls return distinct usernames.
C12_UsernamesUnique ==
    (fnOut # NoResult /\ fnOut2 # NoResult /\ ~fnOut.threw /\ ~fnOut2.threw) =>
        fnOut.value # fnOut2.value

\* the strings of the shape run "@" run "." run, the runs non-empty and
\* without whitespace and "@"
EmailShape(s) ==
    \E i, j \in 1..Len(s) :
        /\ s[i] = "@"
        /\ s[j] = "."
        /\ 1 < i
        /\ i + 1 < j
        /\ j < Len(s)
        /\ \A k \in 1..Len(s) : k # i => s[k] \notin {"@", " ", "\t", "\n"}

\* C13: isValidEmail(s) is true if and only if s has the shape run "@" run
\* "." run with non-empty runs of characters that are neither whitespace nor
\* "@"; it is false without an "@" and without a "." after the "@".
C13_ValidEmailShape ==
    vOut # NoResult =>
        /\ vOut.value = EmailShape(vEmail)
        /\ "@" \notin Range(vEmail) => ~vOut.value
        /\ (\A k \in 1..Len(vEmail) : vEmail[k] = "." => \E m \in k..Len(vEmail) : vEmail[m] = "@")
              => ~vOut.value

\* an email accepted with a "." inside the run after the "@"
C13_Witness ==
    /\ vOut # NoResult
    /\ vOut.value
    /\ vEmail = <<"a", "@", ".", ".", "a">>

LoginSteps == {"loginTypeUsername", "loginTypePassword", "loginSubmit"}

\* the URL indicates a login page
IsLoginPage(u) == includes(u, <<"l","o","g","i","n">>)

\* the initial navigation resolved
Landed == steps["goto"] = 1 /\ failedAt # "goto"

\* a login step is pending or was executed
LoginEntered == pc \in LoginSteps \/ \E s \in LoginSteps : steps[s] > 0

CredentialsMissing ==
    Falsy(env.IPTV_PROVIDER_USERNAME) \/ Falsy(env.IPTV_PROVIDER_PASSWORD)

CredentialsMessage == "IPTV provider credentials not set in environment variables"

\* C15: login is decided once, right after the initial navigation: the login
\* steps are entered if and only if the URL the navigation landed on indicates
\* a login page; on any other page missing provider credentials never fail
\* the invocation, and on a login page with a credential missing the
\* invocation fails with the configuration error before any field is filled.
C15_ConditionalLogin ==
    /\ steps["goto"] <= 1
    /\ ~Landed => (~LoginEntered /\ failedAt # "loginConfig")
    /\ (Landed /\ ~IsLoginPage(landedUrl)) =>
          /\ ~LoginEntered
          /\ failedAt # "loginConfig"
          /\ \A s \in LoginSteps : failedAt # s
          /\ (pc = "returned" /\ "error" \in DOMAIN result) => result.error # CredentialsMessage
    /\ (Landed /\ IsLoginPage(landedUrl) /\ ~CredentialsMissing) =>
          /\ LoginEntered
          /\ failedAt # "loginConfig"
    /\ (Landed /\ IsLoginPage(landedUrl) /\ CredentialsMissing) =>
          /\ ~LoginEntered
          /\ form = EmptyForm
          /\ pc \in {"catch", "returned", "raised"}
          /\ pc = "catch" => (failedAt = "loginConfig" /\ caught.message = CredentialsMessage)
          /\ pc = "returned" => (~result.success /\ result.error = CredentialsMessage)

\* a login page with a credential missing: the configuration error is
\* returned and no field was filled
C15_Witness ==
    /\ pc = "returned"
    /\ IsLoginPage(landedUrl)
    /\ CredentialsMissing
    /\ result.error = CredentialsMessage
    /\ form = EmptyForm

\* C16: a final submission whose navigation reaches network quiescence ends
\* in success = true, however the click, the navigation and the registration
\* of the wait interleave (no step of the invocation failing by itself).
C16_QuiescentSubmissionSucceeds ==
    (Terminal /\ nav = "idle" /\ faults = 0) =>
        (pc = "returned" /\ result.success)

\* C17: every step of the workflow is executed at most once per invocation,
\* the form is submitted at most once, and after a failure the invocation is
\* in its failure path or has ended: no step is executed again.
C17_SingleAttempt ==
    /\ \A s \in StepNames : steps[s] <= 1
    /\ failedAt # "none" => pc \in {"catch", "returned", "raised"}
    /\ pc \in StepNames => steps[pc] = 0

\* the wait for the navigation failed after the one submit click, and the
\* invocation ended without another attempt
C17_Witness ==
    /\ pc = "returned"
    /\ failedAt = "waitForNavigation"
    /\ steps["clickSubmit"] = 1
    /\ steps["waitForNavigation"] = 1
    /\ steps["loginSubmit"] = 1

\* C18: an invocation that has stopped has returned a result to its caller
\* and has released the session it acquired.
C18_StoppedWithResult ==
    Terminal => (pc = "returned" /\ (browser => ~browserOpen))

KeyAccepted == ~Falsy(apiKeyEnv) /\ ~Falsy(req.apiKey) /\ req.apiKey = apiKeyEnv

BodyComplete == ~Falsy(req.planId) /\ ~Falsy(req.email)

\* the request got past the CORS check and the JSON parser
ReachedKeyCheck ==
    /\ Falsy(req.origin) \/ req.origin \in allowedOrigins
    /\ ~req.malformed

NotLaunched == pc = "idle" /\ ~browser /\ \A s \in StepNames : steps[s] = 0

\* C14 as stated: purchasePlan is invoked only for a request with the right
\* key and with planId and email; every request with a missing or wrong key
\* is answered 401 (500 when no key is configured) and every request with the
\* key and without planId or email is answered 400, without a launch.
C14_KeyThenBody ==
    /\ pc # "idle" => (KeyAccepted /\ BodyComplete)
    /\ (httpPc = "responded" /\ ~KeyAccepted) =>
          /\ response.status = IF Falsy(apiKeyEnv) THEN 500 ELSE 401
          /\ NotLaunched
    /\ (httpPc = "responded" /\ KeyAccepted /\ ~BodyComplete) =>
          /\ response.status = 400
          /\ NotLaunched

\* C14 (amended): purchasePlan is invoked only for a request with the right
\* key and with planId and email; of the requests that got past the CORS
\* check and the JSON parser, one with a missing or wrong key is answered 401
\* (500 when no key is configured) and one with the key and without planId or
\* email is answered 400; a request stopped by the CORS check or the parser
\* is answered 500 or 400; none of these launches a browser session.
C14_GatedPurchase ==
    /\ pc # "idle" =>
          /\ KeyAccepted /\ BodyComplete /\ ReachedKeyCheck
          /\ planId = req.planId /\ email = req.email
    /\ (httpPc = "responded" /\ ReachedKeyCheck /\ ~KeyAccepted) =>
          /\ response.status = IF Falsy(apiKeyEnv) THEN 500 ELSE 401
          /\ NotLaunched
    /\ (httpPc = "responded" /\ ReachedKeyCheck /\ KeyAccepted /\ ~BodyComplete) =>
          /\ response.status = 400
          /\ NotLaunched
    /\ (httpPc = "responded" /\ ~ReachedKeyCheck) =>
          /\ response.status \in {500, 400}
          /\ NotLaunched
    /\ (httpPc = "responded" /\ response.status = 200) =>
          (pc = "returned" /\ response.body = result)

\* a request with a wrong key and a complete body, answered 401 with no
\* browser launched
C14_Witness ==
    /\ httpPc = "responded"
    /\ ~Falsy(req.apiKey)
    /\ ~Falsy(apiKeyEnv)
    /\ req.apiKey # apiKeyEnv
    /\ BodyComplete
    /\ response.status = 401
    /\ NotLaunched

\* C20: the dialog handler is installed before the initial navigation starts,
\* and no dialog of the page, whenever it arrives, produces a fault outside
\* the failure path of the invocation.
C20_DialogsHandled ==
    /\ (pc = "goto" \/ landedUrl # <<>>) => handlerInstalled
    /\ unhandled = 0

\* the two invocations
Contexts == {Context} \cup (IF other = NoOther THEN {} ELSE {other})

\* the steps between the launch and the release of the session
Working == (StepNames \cup {"clickSubmitted"}) \ {"launch", "catch"}

\* the session of invocation c is there from its launch to its own close
SessionOwned(c) ==
    /\ c.pc = "launch" => (~c.browser /\ ~c.browserOpen /\ c.closeCalls = 0)
    /\ c.pc \in Working => (c.browser /\ c.browserOpen /\ c.closeCalls = 0)
    /\ (c.pc = "catch" /\ c.browser /\ c.closeCalls = 0) => c.browserOpen
    /\ (c.pc = "returned" /\ c.browser) => (~c.browserOpen /\ c.closeCalls >= 1)
    /\ c.closeCalls <= 2

\* what invocation c returns alone, from its arguments, the clock and the
\* random state it read and the failure it met
ResultAlone(c) ==
    IF c.failedAt # "none"
    THEN failureResult(c.caught)
    ELSE IF c.orderType = "STANDARD"
         THEN successResult(c.orderType,
                            generateUsernameFromEmail(c.email, c.readings.now).value,
                            generatePassword(DefaultPasswordLength, c.readings.seed).password,
                            c.macAddress, env)
         ELSE successResult(c.orderType, c.macAddress, <<>>, c.macAddress, env)

\* C19: of two concurrent invocations each owns its session from its launch
\* to its own release, a step of one leaves everything the other owns as it
\* was, and each returns what it returns alone with the same arguments,
\* clock, random draws and failure.
C19_Independent ==
    /\ [](\A c \in Contexts :
            /\ SessionOwned(c)
            /\ c.pc = "returned" => c.result = ResultAlone(c))
    /\ [][self' = self => other' = other]_vars

\* the STANDARD order succeeded after the MAG_DEVICE order had failed at its
\* initial navigation and released its own session
C19_Witness ==
    /\ other # NoOther
    /\ pc = "returned"
    /\ orderType = "STANDARD"
    /\ result.success
    /\ other.pc = "returned"
    /\ other.failedAt = "goto"
    /\ other.closeCalls = 1
    /\ closeCalls = 1
    /\ ~browserOpen

\* the outcomes of everything invocations a and b awaited and read: the page
\* the navigation landed on, the clock and the random state, the operation
\* that failed and its error, the provider's navigation after the submit,
\* whether the close of the failure path rejected and what a close left of
\* the browser
SameBehaviour(a, b) ==
    /\ a.landedUrl = b.landedUrl
    /\ a.readings = b.readings
    /\ a.failedAt = b.failedAt
    /\ a.caught = b.caught
    /\ a.faults = b.faults
    /\ a.nav = b.nav
    /\ a.waitFrom = b.waitFrom
    /\ (a.pc = "raised") = (b.pc = "raised")
    /\ a.browserOpen = b.browserOpen

\* C21: two invocations that differ in isFreeTrial only, and for which the
\* clock, the random draws and the provider behaved the same, executed the
\* same steps, filled the same form and ended with the same result.
C21_FreeTrialInert ==
    (self = 2 /\ Terminal /\ isFreeTrial # other.isFreeTrial
        /\ SameBehaviour(Context, other)) =>
        /\ steps = other.steps
        /\ form = other.form
        /\ url = other.url
        /\ closeCalls = other.closeCalls
        /\ username = other.username
        /\ password = other.password
        /\ result = other.result

\* a successful free-trial order after the same order without the flag
C21_Witness ==
    /\ self = 2
    /\ isFreeTrial
    /\ ~other.isFreeTrial
    /\ pc = "returned"
    /\ result.success
    /\ SameBehaviour(Context, other)
    /\ steps["settle"] = 1

\* the page is the one at path of the provider
OnPage(path) == url = env.IPTV_PROVIDER_URL \o path

\* C22: whatever orderType the request carries, the MAC field is filled and
\* the MAG_DEVICE fields are returned only on the /mag page, and the user and
\* password fields are filled and the STANDARD fields are returned only on
\* the /line page.
C22_BranchMatchesPage ==
    /\ form.mac # <<>> => OnPage(<<"/","m","a","g">>)
    /\ (pc = "returned" /\ result.success /\ "portalURL" \in DOMAIN result) =>
          OnPage(<<"/","m","a","g">>)
    /\ (steps["typeUsername"] = 1 /\ failedAt # "typeUsername") =>
          OnPage(<<"/","l","i","n","e">>)
    /\ (pc = "returned" /\ result.success /\ "m3uUrl" \in DOMAIN result) =>
          OnPage(<<"/","l","i","n","e">>)

====
